---- MODULE Spec2Model ----
(***************************************************************************)
(* Relay test server (utils/relay_test_server.py, utils/protocol.py):      *)
(* the binary codecs, the synthetic generator and the four transport       *)
(* engines (TCP sink, TCP source, UDP sink, UDP source), each engine as a  *)
(* state machine whose steps run from one await of the coroutine to the    *)
(* next.                                                                   *)
(***************************************************************************)
EXTENDS Integers, Sequences, FiniteSets, TLC

(***************************************************************************)
(* Program constants                                                       *)
(***************************************************************************)
\* struct.calcsize('<BBH I Q') = 1+1+2+4+8
ENV_SIZE == 16
\* struct.calcsize('<BBHhhhhHHhh') = 1+1+2+4*2+2*2+2*2
GS_SIZE == 20
\* upper limit of env.length accepted by the TCP sink
MAX_FRAME_LEN == 4096
\* largest packet the UDP source hands to the socket
UDP_SAFE_PAYLOAD == 1472
\* backoff = 1.0 / min(backoff * 2, 10.0) / asyncio.sleep(1.0)
BACKOFF_INITIAL == 1
BACKOFF_CAP == 10
ERROR_SLEEP == 1
\* tri(seq, 200, 12000)
TRI_PERIOD == 200
TRI_AMP == 12000

(***************************************************************************)
(* Bounds of the model                                                     *)
(***************************************************************************)
\* frames one TCP source connection writes before the model stops it
MaxSeq == 3
\* frames the transport buffers before drain() has to wait
HighWater == 1
\* consecutive failures of the TCP source the model follows
MaxFails == 6
\* chunks one TCP sink client sends
MaxChunks == 2
\* outbound connections the model lets the TCP source hold open
MaxOpen == 2
\* datagrams the UDP sink receives
MaxDatagrams == 3
\* ticks of the UDP source
MaxTicks == 6
MaxGenTick == 400

\* values of time.time_ns() // 1000 the model draws from
Timestamps == {5, 70000}

(***************************************************************************)
(* Bytes and struct packing                                                *)
(***************************************************************************)
Pow256(k) == IF k = 0 THEN 1 ELSE IF k = 1 THEN 256 ELSE IF k = 2 THEN 65536 ELSE 16777216

\* value n as k bytes, most significant first
BE(n, k) == [i \in 1..k |-> IF k - i < 4 THEN (n \div Pow256(k - i)) % 256 ELSE 0]

\* value n as k little-endian bytes (n >= 0, within TLC's integers)
LE(n, k) == [i \in 1..k |-> IF i <= 4 THEN (n \div Pow256(i - 1)) % 256 ELSE 0]

RECURSIVE FromLE(_)
\* the unsigned integer a little-endian byte string stands for
FromLE(bs) == IF bs = <<>> THEN 0 ELSE Head(bs) + 256 * FromLE(Tail(bs))

\* a 32- or 64-bit unsigned field as its 16-bit words, least significant first
\* (the values exceed the integers TLC computes with)
Words(bs) == [i \in 1..(Len(bs) \div 2) |-> bs[2 * i - 1] + 256 * bs[2 * i]]
\* the words of a value n < 2^31 in a field of k bytes
WordsOf(n, k) == [i \in 1..(k \div 2) |-> IF i = 1 THEN n % 65536 ELSE IF i = 2 THEN n \div 65536 ELSE 0]

\* struct range checks: B, H, h, I, Q
FitsU8(n) == 0 <= n /\ n <= 255
FitsU16(n) == 0 <= n /\ n <= 65535
FitsI16(n) == -32768 <= n /\ n <= 32767
FitsU32(n) == 0 <= n /\ (n \div 65536) <= 65535
FitsU64(n) == 0 <= n

PackI16(n) == LE(IF n < 0 THEN n + 65536 ELSE n, 2)
UnpackI16(bs) == LET u == FromLE(bs) IN IF u >= 32768 THEN u - 65536 ELSE u

Slice(bs, from, to) == IF to < from THEN <<>> ELSE SubSeq(bs, from, IF to > Len(bs) THEN Len(bs) ELSE to)

Zeros(n) == [i \in 1..n |-> 0]

(***************************************************************************)
(* protocol.py: Envelope and GamepadState                                  *)
(***************************************************************************)
\* struct.unpack('<BBH I Q', data): error unless len(data) = 16
Envelope_from_bytes(data) ==
    IF Len(data) # ENV_SIZE
    THEN [ok |-> FALSE, msg_type |-> 0, version |-> 0, length |-> 0,
          seq |-> WordsOf(0, 4), timestamp_us |-> WordsOf(0, 8)]
    ELSE [ok |-> TRUE,
          msg_type |-> data[1],
          version |-> data[2],
          length |-> FromLE(SubSeq(data, 3, 4)),
          seq |-> Words(SubSeq(data, 5, 8)),
          timestamp_us |-> Words(SubSeq(data, 9, 16))]

GamepadFields(d) ==
    [device_id |-> d[1], flags |-> d[2], buttons |-> FromLE(SubSeq(d, 3, 4)),
     lx |-> UnpackI16(SubSeq(d, 5, 6)), ly |-> UnpackI16(SubSeq(d, 7, 8)),
     rx |-> UnpackI16(SubSeq(d, 9, 10)), ry |-> UnpackI16(SubSeq(d, 11, 12)),
     l2 |-> FromLE(SubSeq(d, 13, 14)), r2 |-> FromLE(SubSeq(d, 15, 16)),
     dpad_x |-> UnpackI16(SubSeq(d, 17, 18)), dpad_y |-> UnpackI16(SubSeq(d, 19, 20))]

\* a decoder that takes the payload whole, without data[:20]
GamepadState_from_bytes_unsliced(data) ==
    IF Len(data) # GS_SIZE
    THEN [ok |-> FALSE, state |-> GamepadFields(Zeros(GS_SIZE))]
    ELSE [ok |-> TRUE, state |-> GamepadFields(data)]

\* struct.unpack('<BBHhhhhHHhh', data[:20]): error when fewer than 20 bytes
GamepadState_from_bytes(data) ==
    LET d == Slice(data, 1, GS_SIZE) IN
    IF Len(d) # GS_SIZE
    THEN [ok |-> FALSE, state |-> GamepadFields(Zeros(GS_SIZE))]
    ELSE [ok |-> TRUE, state |-> GamepadFields(d)]

(***************************************************************************)
(* relay_test_server.py: packing helpers                                   *)
(***************************************************************************)
\* x / half * amp in IEEE doubles falls just below the integer for these x
\* (period 200, amplitude 12000), and int() truncates
FloatLoss(x, half, amp) ==
    IF half = 100 /\ amp = 12000 /\ x \in {29, 57, 58} THEN 1 ELSE 0

\* the wave without "* (1 if t < half else -1)"
tri_folded(n, period, amp) ==
    LET t == n % period
        half == period \div 2
        x == IF t < half THEN t ELSE period - t
    IN  (x * amp) \div half - FloatLoss(x, half, amp)

tri(n, period, amp) ==
    LET t == n % period
        half == period \div 2
        x == IF t < half THEN t ELSE period - t
        mag == (x * amp) \div half - FloatLoss(x, half, amp)
    IN  IF t < half THEN mag ELSE 0 - mag

GeneratedState(seq) ==
    [device_id |-> 0, flags |-> 1,
     buttons |-> IF (seq \div 30) % 2 = 0 THEN 1 ELSE 2,
     lx |-> tri(seq, TRI_PERIOD, TRI_AMP),
     ly |-> tri(seq + 50, TRI_PERIOD, TRI_AMP),
     rx |-> tri(seq + 100, TRI_PERIOD, TRI_AMP),
     ry |-> tri(seq + 150, TRI_PERIOD, TRI_AMP),
     l2 |-> (seq * 8) % 1024, r2 |-> (seq * 5) % 1024,
     dpad_x |-> IF (seq \div 60) % 3 = 0 THEN -1 ELSE IF (seq \div 60) % 3 = 1 THEN 1 ELSE 0,
     dpad_y |-> 0]

\* struct.pack('<BBHhhhhHHhh', ...)
PackGamepadFields(s) ==
    IF /\ FitsU8(s.device_id) /\ FitsU8(s.flags) /\ FitsU16(s.buttons)
       /\ FitsI16(s.lx) /\ FitsI16(s.ly) /\ FitsI16(s.rx) /\ FitsI16(s.ry)
       /\ FitsU16(s.l2) /\ FitsU16(s.r2) /\ FitsI16(s.dpad_x) /\ FitsI16(s.dpad_y)
    THEN [ok |-> TRUE,
          bytes |-> <<s.device_id, s.flags>> \o LE(s.buttons, 2)
                    \o PackI16(s.lx) \o PackI16(s.ly) \o PackI16(s.rx) \o PackI16(s.ry)
                    \o LE(s.l2, 2) \o LE(s.r2, 2) \o PackI16(s.dpad_x) \o PackI16(s.dpad_y)]
    ELSE [ok |-> FALSE, bytes |-> <<>>]

pack_gamepad_state(seq) == PackGamepadFields(GeneratedState(seq))

\* an envelope whose length field counts the whole frame, header included
pack_envelope_frame_length(msg_type, version, payload, seq, now) ==
    LET length == ENV_SIZE + Len(payload) IN
    IF FitsU8(msg_type) /\ FitsU8(version) /\ FitsU16(length) /\ FitsU32(seq) /\ FitsU64(now)
    THEN [ok |-> TRUE,
          bytes |-> <<msg_type, version>> \o LE(length, 2) \o LE(seq, 4) \o LE(now, 8)]
    ELSE [ok |-> FALSE, bytes |-> <<>>]

\* struct.pack('<BBH I Q', msg_type, version, len(payload), seq, now)
pack_envelope(msg_type, version, payload, seq, now) ==
    LET length == Len(payload) IN
    IF FitsU8(msg_type) /\ FitsU8(version) /\ FitsU16(length) /\ FitsU32(seq) /\ FitsU64(now)
    THEN [ok |-> TRUE,
          bytes |-> <<msg_type, version>> \o LE(length, 2) \o LE(seq, 4) \o LE(now, 8)]
    ELSE [ok |-> FALSE, bytes |-> <<>>]

\* env + payload as the source loops build it; ok = FALSE when struct.pack raises
BuildPacket(msg_type, version, seq, now) ==
    LET p == pack_gamepad_state(seq)
        e == pack_envelope(msg_type, version, p.bytes, seq, now)
    IN  IF p.ok /\ e.ok THEN [ok |-> TRUE, bytes |-> e.bytes \o p.bytes]
        ELSE [ok |-> FALSE, bytes |-> <<>>]

\* a seq beyond TLC's integers is held as hi * 2^16 + lo. Every generated field
\* is periodic in seq (60, 180, 200, 128 and 1024 ticks): 230400 is their
\* least common multiple
GEN_PERIOD == 230400
GenPhase(hi, lo) == (((((hi * 256) % GEN_PERIOD) * 256) % GEN_PERIOD) + lo) % GEN_PERIOD

\* struct's range check of '<I' on hi * 2^16 + lo, and its four bytes
SeqFitsU32(hi, lo) == 0 <= lo /\ hi + (lo \div 65536) <= 65535
SeqBytes(hi, lo) == LE(lo % 65536, 2) \o LE((hi + (lo \div 65536)) % 65536, 2)

\* pack_envelope on a seq held as hi * 2^16 + lo
pack_envelope_at(hi, msg_type, version, payload, seq, now) ==
    LET length == Len(payload) IN
    IF /\ FitsU8(msg_type) /\ FitsU8(version) /\ FitsU16(length)
       /\ SeqFitsU32(hi, seq) /\ FitsU64(now)
    THEN [ok |-> TRUE,
          bytes |-> <<msg_type, version>> \o LE(length, 2) \o SeqBytes(hi, seq) \o LE(now, 8)]
    ELSE [ok |-> FALSE, bytes |-> <<>>]

\* env + payload for the seq hi * 2^16 + lo
BuildPacketAt(hi, msg_type, version, seq, now) ==
    LET p == pack_gamepad_state(GenPhase(hi, seq))
        e == pack_envelope_at(hi, msg_type, version, p.bytes, seq, now)
    IN  IF p.ok /\ e.ok THEN [ok |-> TRUE, bytes |-> e.bytes \o p.bytes]
        ELSE [ok |-> FALSE, bytes |-> <<>>]

\* --version default
VERSION == 1
\* values of --msg-type the model draws from: the default, and one no 'B' field holds
MsgTypes == {1, 300}


(***************************************************************************)
(* State                                                                   *)
(***************************************************************************)
VARIABLES
    msg_type,         \* args.msg_type, stamped on generated frames
    \* tcp_source: the await the task is suspended at
    \* ("connect", "drain", "pace", "backoff", "errsleep") or "cancelled"
    src_pc,
    src_backoff,      \* local backoff
    src_seq,          \* local seq (bound at the first successful connect)
    src_writer,       \* the StreamWriter's transport: "none", "open", "closed"
    src_open,         \* outbound connections currently open
    src_txbuf,        \* frames written and not yet taken by the peer
    peer_reading,     \* the peer of the source keeps reading its socket
    src_sleep,        \* the delay of the sleep in progress (0: none)
    src_fails,        \* connect/send failures since the last successful connect
    src_last,         \* the last packet handed to an open transport
    src_maxseq,       \* highest seq of any packet handed to a transport (-1: none)
    src_conn_frames,  \* packets handed to the current connection
    src_first         \* no connection was opened before the current one

srcVars == <<src_pc, src_backoff, src_seq, src_writer, src_open, src_txbuf,
             peer_reading, src_sleep, src_fails, src_last, src_maxseq, src_conn_frames,
             src_first>>

VARIABLES
    srv,              \* tcp_sink: the listening server, "listening" or "closed"
    conn,             \* tcp_sink_client per connection: its await, its stream, its log
    usink_open,       \* udp_sink: the datagram transport is open
    usink_log,        \* what datagram_received did with each datagram, in order
    usrc_pc,          \* udp_source: "send", "sleep", "cancelled" or "failed"
    usrc_seq,         \* local seq: its value is usrc_hi * 2^16 + usrc_seq
    usrc_hi,          \* the 2^16-blocks of seq counted before the modelled passes
    usrc_sock,        \* the socket: "open" or "closed"
    usrc_log,         \* what each pass of the loop did, in order
    rt,               \* the last value packed and unpacked: input, bytes, decoded
    gen_n,            \* the tick pack_gamepad_state was last called with
    gen_state,        \* the fields it generated for that tick
    mode,             \* args.mode: "tcp", "udp" or "both"
    role,             \* args.role: "sink" or "source"
    wait_closed_waits,\* Server.wait_closed() waits for the open connections
    orch_pc,          \* main_async: "waiting", "gathering" or "returned"
    stop,             \* the stop event is set
    \* per engine, the state of the task main_async created: "absent",
    \* "starting", "running", "aborting" / "cancelling" (cancel requested before /
    \* after it ran), "closing" (tcp_sink in wait_closed), "failed", "cancelled"
    task,
    handler           \* per TCP sink connection, the state of its tcp_sink_client task

cfgVars == <<msg_type>>
sinkVars == <<srv, conn>>
usinkVars == <<usink_open, usink_log>>
usrcVars == <<usrc_pc, usrc_seq, usrc_hi, usrc_sock, usrc_log>>
codecVars == <<rt>>
genVars == <<gen_n, gen_state>>
orchVars == <<mode, role, wait_closed_waits, orch_pc, stop, task, handler>>

vars == <<cfgVars, srcVars, sinkVars, usinkVars, usrcVars, codecVars, genVars, orchVars>>

notSrc == <<cfgVars, sinkVars, usinkVars, usrcVars, codecVars, genVars, orchVars>>
notSink == <<cfgVars, srcVars, usinkVars, usrcVars, codecVars, genVars, orchVars>>
notUsink == <<cfgVars, srcVars, sinkVars, usrcVars, codecVars, genVars, orchVars>>
notUsrc == <<cfgVars, srcVars, sinkVars, usinkVars, codecVars, genVars, orchVars>>
notCodec == <<cfgVars, srcVars, sinkVars, usinkVars, usrcVars, genVars, orchVars>>
notOrch == <<cfgVars, srcVars, sinkVars, usinkVars, usrcVars, codecVars, genVars>>
notGen == <<cfgVars, srcVars, sinkVars, usinkVars, usrcVars, codecVars, orchVars>>

Max(a, b) == IF a > b THEN a ELSE b
Min(a, b) == IF a < b THEN a ELSE b

InitSrc ==
    /\ src_pc = "connect"
    /\ src_backoff = BACKOFF_INITIAL
    /\ src_seq = 0
    /\ src_writer = "none"
    /\ src_open = 0
    /\ src_txbuf = 0
    /\ peer_reading = TRUE
    /\ src_sleep = 0
    /\ src_fails = 0
    /\ src_last = <<>>
    /\ src_maxseq = -1
    /\ src_conn_frames = 0
    /\ src_first = TRUE

(***************************************************************************)
(* TCP source                                                              *)
(***************************************************************************)
\* seq = 0 after "Connected"
SeqKeptOnConnect(seq) == seq
SeqOnConnect(seq) == 0

\* backoff = 1.0 after "Connected"
BackoffOnConnect(backoff) == BACKOFF_INITIAL

\* backoff = min(backoff * 2, 10.0)
BackoffUncapped(backoff) == backoff * 2
NextBackoff(backoff) == Min(backoff * 2, BACKOFF_CAP)

\* "except (ConnectionRefusedError, TimeoutError, OSError)": the handler logs and
\* sleeps inside "while True", so the task goes on to sleep(backoff)
TerminateOnOSError(pc) == "failed"
AfterOSError(pc) == "backoff"

\* the first successful open_connection binds writer; later ones rebind it
FirstConnection(writer) == writer = "none"

\* one pass of the inner loop up to its await: build the frame of seq, write it,
\* reach drain(); struct.error leaves through "except Exception" to sleep(1.0)
SrcWriteFrame(writer, seq, frames, now) ==
    LET pkt == BuildPacket(msg_type, VERSION, seq, now) IN
    IF ~pkt.ok
    THEN /\ src_pc' = "errsleep"
         /\ src_sleep' = ERROR_SLEEP
         /\ src_conn_frames' = frames
         /\ UNCHANGED <<src_txbuf, src_last, src_maxseq>>
    ELSE /\ src_pc' = "drain"
         /\ src_sleep' = 0
         /\ IF writer = "open"
            THEN /\ src_txbuf' = src_txbuf + 1
                 /\ src_last' = pkt.bytes
                 /\ src_maxseq' = Max(src_maxseq, seq)
                 /\ src_conn_frames' = frames + 1
            ELSE /\ src_conn_frames' = frames
                 /\ UNCHANGED <<src_txbuf, src_last, src_maxseq>>

\* open_connection returned: backoff and seq are set, the first frame is written
tcp_source_connected ==
    /\ UNCHANGED notSrc
    /\ src_pc = "connect"
    /\ src_open < MaxOpen
    /\ \E now \in Timestamps :
         /\ src_writer' = "open"
         /\ src_open' = src_open + 1
         /\ src_backoff' = BackoffOnConnect(src_backoff)
         /\ src_seq' = SeqOnConnect(src_seq)
         /\ src_fails' = 0
         /\ peer_reading' = TRUE
         /\ src_first' = FirstConnection(src_writer)
         /\ SrcWriteFrame("open", SeqOnConnect(src_seq), 0, now)

\* open_connection raised OSError: log, sleep(backoff)
tcp_source_connect_failed ==
    /\ UNCHANGED <<notSrc, src_first>>
    /\ src_pc = "connect"
    /\ src_fails < MaxFails
    /\ src_pc' = AfterOSError(src_pc)
    /\ src_sleep' = src_backoff
    /\ src_fails' = src_fails + 1
    /\ UNCHANGED <<src_backoff, src_seq, src_writer, src_open, src_txbuf,
                   peer_reading, src_last, src_maxseq, src_conn_frames>>

\* drain() returned: seq += 1, sleep(period)
tcp_source_drained ==
    /\ UNCHANGED <<notSrc, src_first>>
    /\ src_pc = "drain"
    /\ src_writer = "open"
    /\ src_txbuf <= HighWater
    /\ src_seq' = src_seq + 1
    /\ src_pc' = "pace"
    /\ UNCHANGED <<src_backoff, src_writer, src_open, src_txbuf, peer_reading,
                   src_sleep, src_fails, src_last, src_maxseq, src_conn_frames>>

\* drain() raised ConnectionResetError (the transport lost its connection)
tcp_source_send_failed ==
    /\ UNCHANGED <<notSrc, src_first>>
    /\ src_pc = "drain"
    /\ src_writer = "closed"
    /\ src_fails < MaxFails
    /\ src_pc' = AfterOSError(src_pc)
    /\ src_sleep' = src_backoff
    /\ src_fails' = src_fails + 1
    /\ UNCHANGED <<src_backoff, src_seq, src_writer, src_open, src_txbuf,
                   peer_reading, src_last, src_maxseq, src_conn_frames>>

\* sleep(period) returned: next pass of the inner loop
tcp_source_paced ==
    /\ UNCHANGED <<notSrc, src_first>>
    /\ src_pc = "pace"
    /\ src_seq <= MaxSeq
    /\ \E now \in Timestamps : SrcWriteFrame(src_writer, src_seq, src_conn_frames, now)
    /\ UNCHANGED <<src_backoff, src_seq, src_writer, src_open, peer_reading, src_fails>>

\* sleep(backoff) returned: backoff = min(backoff * 2, 10.0), back to connecting
tcp_source_backoff_slept ==
    /\ UNCHANGED <<notSrc, src_first>>
    /\ src_pc = "backoff"
    /\ src_backoff' = NextBackoff(src_backoff)
    /\ src_sleep' = 0
    /\ src_pc' = "connect"
    /\ UNCHANGED <<src_seq, src_writer, src_open, src_txbuf, peer_reading,
                   src_fails, src_last, src_maxseq, src_conn_frames>>

\* sleep(1.0) of "except Exception" returned
tcp_source_error_slept ==
    /\ UNCHANGED <<notSrc, src_first>>
    /\ src_pc = "errsleep"
    /\ src_sleep' = 0
    /\ src_pc' = "connect"
    /\ UNCHANGED <<src_backoff, src_seq, src_writer, src_open, src_txbuf, peer_reading,
                   src_fails, src_last, src_maxseq, src_conn_frames>>

\* task.cancel(): CancelledError at the current await is re-raised; no handler
\* or finally block touches the writer
tcp_source_cancelled ==
    /\ UNCHANGED <<notSrc, src_first>>
    /\ src_pc \in {"connect", "drain", "pace", "backoff", "errsleep"}
    /\ src_pc' = "cancelled"
    /\ src_sleep' = 0
    /\ UNCHANGED <<src_backoff, src_seq, src_writer, src_open, src_txbuf, peer_reading,
                   src_fails, src_last, src_maxseq, src_conn_frames>>

\* the event loop sends a buffered frame to a peer that reads
transport_flush ==
    /\ UNCHANGED <<notSrc, src_first>>
    /\ src_writer = "open"
    /\ peer_reading
    /\ src_txbuf > 0
    /\ src_txbuf' = src_txbuf - 1
    /\ UNCHANGED <<src_pc, src_backoff, src_seq, src_writer, src_open, peer_reading,
                   src_sleep, src_fails, src_last, src_maxseq, src_conn_frames>>

\* the peer stops / resumes reading its end of the connection
peer_stalls ==
    /\ UNCHANGED <<notSrc, src_first>>
    /\ src_writer = "open"
    /\ peer_reading
    /\ peer_reading' = FALSE
    /\ UNCHANGED <<src_pc, src_backoff, src_seq, src_writer, src_open, src_txbuf,
                   src_sleep, src_fails, src_last, src_maxseq, src_conn_frames>>

peer_resumes ==
    /\ UNCHANGED <<notSrc, src_first>>
    /\ src_writer = "open"
    /\ ~peer_reading
    /\ peer_reading' = TRUE
    /\ UNCHANGED <<src_pc, src_backoff, src_seq, src_writer, src_open, src_txbuf,
                   src_sleep, src_fails, src_last, src_maxseq, src_conn_frames>>

\* the peer closes or resets: the transport closes itself (connection_lost)
connection_lost ==
    /\ UNCHANGED <<notSrc, src_first>>
    /\ src_writer = "open"
    /\ src_writer' = "closed"
    /\ src_open' = src_open - 1
    /\ src_txbuf' = 0
    /\ UNCHANGED <<src_pc, src_backoff, src_seq, peer_reading,
                   src_sleep, src_fails, src_last, src_maxseq, src_conn_frames>>

(***************************************************************************)
(* TCP sink                                                                *)
(***************************************************************************)
\* the connections the model lets the listener accept: one and a sibling
Conns == {1, 2}

\* an envelope as a peer may send it: any declared length
PeerEnvelope(length, seq) == <<1, 1>> \o LE(length, 2) \o LE(seq, 4) \o LE(5, 8)

GoodFrame == PeerEnvelope(GS_SIZE, 7) \o pack_gamepad_state(7).bytes
ZeroLengthFrame == PeerEnvelope(0, 8)
HugeLengthFrame == PeerEnvelope(MAX_FRAME_LEN + 1, 9)
ShortFrame == PeerEnvelope(4, 10) \o <<9, 9, 9, 9>>
LongFrame == PeerEnvelope(GS_SIZE + 1, 11) \o pack_gamepad_state(11).bytes \o <<255>>
PartialEnvelope == SubSeq(GoodFrame, 1, 8)
PartialPayload == SubSeq(GoodFrame, 1, ENV_SIZE + 10)

\* what one client write puts on the stream; after part of a frame the client
\* writes no more
PartialChunks == {PartialEnvelope, PartialPayload}
SinkChunks == {GoodFrame, ZeroLengthFrame, HugeLengthFrame, ShortFrame, LongFrame}
                \cup PartialChunks
\* the first client sends anything; its sibling sends good frames or stops mid-frame
ClientChunks(c) == IF c = 1 THEN SinkChunks ELSE {GoodFrame, PartialPayload}

FreeConn ==
    [pc |-> "free", buf |-> <<>>, peer |-> "open", env_length |-> 0, env_seq |-> WordsOf(0, 4),
     chunks |-> 0, consumed |-> 0, attempts |-> 0, log |-> <<>>, close_failed |-> FALSE]

InitSink ==
    /\ srv = "listening"
    /\ conn = [c \in Conns |-> FreeConn]

\* one log record: the event and the envelope length it is about
LogEntry(ev, length) == [ev |-> ev, length |-> length]

\* await writer.wait_closed() raises the exception the connection was lost
\* with; "except Exception: pass" drops it
CloseRaises(r) == r.peer = "reset"

\* a closed connection: its reader and what the peer still does are gone
Closed(r, log) ==
    [FreeConn EXCEPT !.pc = "closed", !.consumed = r.consumed, !.attempts = r.attempts,
                     !.log = log \o <<LogEntry("disconnected", 0)>>,
                     !.close_failed = CloseRaises(r)]

\* if env.length <= 0 or env.length > 4096
InvalidLengthNoLower(length) == length > MAX_FRAME_LEN
InvalidLength(length) == length <= 0 \/ length > MAX_FRAME_LEN

\* the bytes the read in progress waits for
Wanted(r) == IF r.pc = "hdr" THEN ENV_SIZE ELSE r.env_length

\* finally: writer.close(); await writer.wait_closed(); "Client disconnected".
\* Only this connection's writer is closed.
CloseAll(c, r, log) ==
    [d \in Conns |->
        IF d = c THEN Closed(r, log)
        ELSE IF conn[d].pc \in {"hdr", "payload"} THEN Closed(conn[d], conn[d].log)
        ELSE conn[d]]
CloseClient(c, r, log) ==
    [conn EXCEPT ![c] = Closed(r, log)]

\* the listener after a client handler has ended: the handler holds no
\* reference to the server
ListenerAfterClient(s) == s

\* except Exception around GamepadState.from_bytes: log.error, next pass of the loop
DropOnDecodeFailure(r) == "closed"
AfterDecodeFailure(r) == "hdr"

\* start_server's callback: a new connection gets its own tcp_sink_client task,
\* which logs and awaits the first envelope
tcp_sink_accept(c) ==
    /\ UNCHANGED notSink
    /\ srv = "listening"
    /\ conn[c].pc = "free"
    /\ conn' = [conn EXCEPT ![c] = [FreeConn EXCEPT !.pc = "hdr",
                                                  !.log = <<LogEntry("connected", 0)>>]]
    /\ UNCHANGED srv

\* read_exactly(reader, _ENV_SIZE) returned: decode, check the length, and either
\* break (close) or await the payload
tcp_sink_client_header(c) ==
    LET r == conn[c]
        env == Envelope_from_bytes(SubSeq(r.buf, 1, ENV_SIZE))
        rest == [r EXCEPT !.buf = SubSeq(r.buf, ENV_SIZE + 1, Len(r.buf)),
                          !.consumed = r.consumed + ENV_SIZE]
    IN  /\ UNCHANGED notSink
        /\ r.pc = "hdr"
        /\ r.peer # "reset"
        /\ Len(r.buf) >= ENV_SIZE
        /\ IF InvalidLength(env.length)
           THEN conn' = CloseClient(c, rest, r.log \o <<LogEntry("invalid_length", env.length)>>)
           ELSE conn' = [conn EXCEPT ![c] = [rest EXCEPT !.pc = "payload",
                                                        !.env_length = env.length,
                                                        !.env_seq = env.seq]]
        /\ srv' = ListenerAfterClient(srv)

\* read_exactly(reader, env.length) returned: warn on a size mismatch, try to
\* decode, log the frame or the parse error, loop
tcp_sink_client_payload(c) ==
    LET r == conn[c]
        payload == SubSeq(r.buf, 1, r.env_length)
        gs == GamepadState_from_bytes(payload)
        warn == IF r.env_length # GS_SIZE THEN <<LogEntry("length_mismatch", r.env_length)>> ELSE <<>>
        rest == [r EXCEPT !.buf = SubSeq(r.buf, r.env_length + 1, Len(r.buf)),
                          !.consumed = r.consumed + r.env_length,
                          !.attempts = r.attempts + 1]
    IN  /\ UNCHANGED notSink
        /\ r.pc = "payload"
        /\ r.peer # "reset"
        /\ Len(r.buf) >= r.env_length
        /\ IF gs.ok
           THEN conn' = [conn EXCEPT ![c] = [rest EXCEPT !.pc = "hdr",
                            !.log = r.log \o warn \o <<LogEntry("frame", r.env_length)>>]]
           ELSE IF AfterDecodeFailure(r) = "hdr"
           THEN conn' = [conn EXCEPT ![c] = [rest EXCEPT !.pc = "hdr",
                            !.log = r.log \o warn \o <<LogEntry("parse_error", r.env_length)>>]]
           ELSE conn' = CloseClient(c, rest, r.log \o warn \o <<LogEntry("parse_error", r.env_length)>>)
        /\ UNCHANGED srv

\* wait_for ran out of time before the bytes arrived: TimeoutError
tcp_sink_client_timeout(c) ==
    LET r == conn[c] IN
    /\ UNCHANGED notSink
    /\ r.pc \in {"hdr", "payload"}
    /\ r.peer = "open"
    /\ Len(r.buf) < Wanted(r)
    /\ conn' = CloseClient(c, r, r.log \o <<LogEntry("read_failed", 0)>>)
    /\ srv' = ListenerAfterClient(srv)

\* the peer closed before the bytes arrived: IncompleteReadError
tcp_sink_client_incomplete(c) ==
    LET r == conn[c] IN
    /\ UNCHANGED notSink
    /\ r.pc \in {"hdr", "payload"}
    /\ r.peer = "eof"
    /\ Len(r.buf) < Wanted(r)
    /\ conn' = CloseClient(c, r, r.log \o <<LogEntry("read_failed", 0)>>)
    /\ srv' = ListenerAfterClient(srv)

\* the read raised ConnectionResetError
tcp_sink_client_reset(c) ==
    LET r == conn[c] IN
    /\ UNCHANGED notSink
    /\ r.pc \in {"hdr", "payload"}
    /\ r.peer = "reset"
    /\ conn' = CloseClient(c, r, r.log \o <<LogEntry("peer_reset", 0)>>)
    /\ srv' = ListenerAfterClient(srv)

\* a client writes one chunk to its connection
client_sends(c) ==
    /\ UNCHANGED notSink
    /\ conn[c].pc \in {"hdr", "payload"}
    /\ conn[c].peer = "open"
    /\ conn[c].chunks < MaxChunks
    /\ \E chunk \in ClientChunks(c) :
         conn' = [conn EXCEPT ![c].buf = @ \o chunk,
                              ![c].chunks = IF chunk \in PartialChunks THEN MaxChunks ELSE @ + 1]
    /\ UNCHANGED srv

\* a client closes its end (FIN) or resets the connection (RST: every later
\* read raises, whatever was buffered)
client_closes(c) ==
    /\ UNCHANGED notSink
    /\ conn[c].pc \in {"hdr", "payload"}
    /\ conn[c].peer = "open"
    /\ conn' = [conn EXCEPT ![c].peer = "eof"]
    /\ UNCHANGED srv

client_resets(c) ==
    /\ UNCHANGED notSink
    /\ conn[c].pc \in {"hdr", "payload"}
    /\ conn[c].peer = "open"
    /\ conn' = [conn EXCEPT ![c].peer = "reset", ![c].buf = <<>>]
    /\ UNCHANGED srv

\* task.cancel() on tcp_sink: "async with server" closes the listening sockets
tcp_sink_cancelled ==
    /\ UNCHANGED notSink
    /\ srv = "listening"
    /\ srv' = "closed"
    /\ UNCHANGED conn

NextTcpSink ==
    \/ \E c \in Conns : tcp_sink_accept(c)
    \/ \E c \in Conns : tcp_sink_client_header(c)
    \/ \E c \in Conns : tcp_sink_client_payload(c)
    \/ \E c \in Conns : tcp_sink_client_timeout(c)
    \/ \E c \in Conns : tcp_sink_client_incomplete(c)
    \/ \E c \in Conns : tcp_sink_client_reset(c)
    \/ \E c \in Conns : client_sends(c)
    \/ \E c \in Conns : client_closes(c)
    \/ \E c \in Conns : client_resets(c)
    \/ tcp_sink_cancelled

(***************************************************************************)
(* UDP sink                                                                *)
(***************************************************************************)
InitUsink ==
    /\ usink_open = TRUE
    /\ usink_log = <<>>

\* datagrams a peer may send
ShortPacket == SubSeq(GoodFrame, 1, ENV_SIZE - 1)
TruncatedDatagram == PartialPayload
HugeDatagram == HugeLengthFrame \o Zeros(MAX_FRAME_LEN + 1)
Datagrams == {GoodFrame, ShortPacket, TruncatedDatagram, ZeroLengthFrame, HugeLengthFrame,
              HugeDatagram, ShortFrame, LongFrame}

\* the length field of a datagram, where struct '<BBH' puts it
DeclaredLength(data) == IF Len(data) >= 4 THEN FromLE(SubSeq(data, 3, 4)) ELSE 0

\* if len(payload) != env.length
TruncatedOnlyIfEmpty(payload, length) == Len(payload) = 0 /\ length # 0
Truncated(payload, length) == Len(payload) # length

\* UDPSinkProtocol.datagram_received: what it logs and whether it tried to decode
datagram_received(data) ==
    LET base == [data_len |-> Len(data), declared |-> DeclaredLength(data),
                 mismatch |-> FALSE, decode_attempted |-> FALSE, outcome |-> "short"]
    IN  IF Len(data) < ENV_SIZE THEN base
        ELSE LET env == Envelope_from_bytes(SubSeq(data, 1, ENV_SIZE))
                 payload == Slice(data, ENV_SIZE + 1, ENV_SIZE + env.length)
                 gs == GamepadState_from_bytes(payload)
             IN  IF Truncated(payload, env.length)
                 THEN [base EXCEPT !.outcome = "truncated"]
                 ELSE [base EXCEPT !.mismatch = (env.length # GS_SIZE),
                                   !.decode_attempted = TRUE,
                                   !.outcome = IF gs.ok THEN "frame" ELSE "parse_error"]

\* the handler returns normally on every path: the transport stays as it was
TransportAfterDatagram(open, handled) == open

\* a datagram arrives on the open transport
udp_sink_datagram ==
    /\ UNCHANGED notUsink
    /\ usink_open
    /\ Len(usink_log) < MaxDatagrams
    /\ \E data \in Datagrams :
         /\ usink_log' = Append(usink_log, datagram_received(data))
         /\ usink_open' = TransportAfterDatagram(usink_open, datagram_received(data))

\* task.cancel() on udp_sink: finally: transport.close()
udp_sink_cancelled ==
    /\ UNCHANGED notUsink
    /\ usink_open
    /\ usink_open' = FALSE
    /\ UNCHANGED usink_log

NextUdpSink ==
    \/ udp_sink_datagram
    \/ udp_sink_cancelled

(***************************************************************************)
(* UDP source                                                              *)
(***************************************************************************)
InitUsrc ==
    /\ usrc_pc = "start"
    /\ usrc_seq = 0
    /\ usrc_hi = 0
    /\ usrc_sock = "none"
    /\ usrc_log = <<>>

\* the loop after 2^32 - (MaxTicks - 1) passes: asleep between two passes, the
\* socket open, seq that far below the end of the envelope's 32-bit field
InitUsrcWide ==
    /\ usrc_pc = "sleep"
    /\ usrc_hi = 65535
    /\ usrc_seq = 65536 - (MaxTicks - 1)
    /\ usrc_sock = "open"
    /\ usrc_log = <<>>

\* if len(packet) > 1472
PacketTooBig(n) == n > UDP_SAFE_PAYLOAD

\* seq += 1, on every path of the loop body
SeqStuckOnError(seq, outcome) == IF outcome = "error" THEN seq ELSE seq + 1
SeqAfterPass(seq, outcome) == seq + 1

\* the loop body for a packet of n bytes, up to its first await: the packet is
\* dropped (warning, seq += 1, sleep) or handed to sock_sendto
PassStart(n, seq) ==
    IF PacketTooBig(n)
    THEN [pc |-> "sleep", seq |-> SeqAfterPass(seq, "dropped"),
          log |-> <<[seq |-> seq, len |-> n, outcome |-> "dropped"]>>]
    ELSE [pc |-> "send", seq |-> seq, log |-> <<>>]

\* the task runs to its first await (creating the socket), or sleep(period)
\* returned: build the packet; struct.error is not caught: finally closes the
\* socket and the task ends
udp_source_tick ==
    /\ UNCHANGED notUsrc
    /\ usrc_pc \in {"start", "sleep"}
    /\ Len(usrc_log) < MaxTicks
    /\ \E now \in Timestamps :
         LET pkt == BuildPacketAt(usrc_hi, msg_type, VERSION, usrc_seq, now)
             pass == PassStart(Len(pkt.bytes), usrc_seq)
         IN  IF ~pkt.ok
             THEN /\ usrc_pc' = "failed"
                  /\ usrc_sock' = "closed"
                  /\ UNCHANGED <<usrc_seq, usrc_hi, usrc_log>>
             ELSE /\ usrc_pc' = pass.pc
                  /\ UNCHANGED usrc_hi
                  /\ usrc_seq' = pass.seq
                  /\ usrc_log' = usrc_log \o pass.log
                  /\ usrc_sock' = "open"

\* sock_sendto returned / raised: the error is logged; seq += 1; sleep(period)
udp_source_sent ==
    /\ UNCHANGED notUsrc
    /\ usrc_pc = "send"
    /\ \E outcome \in {"sent", "error"} :
         /\ usrc_log' = Append(usrc_log, [seq |-> usrc_seq, len |-> ENV_SIZE + GS_SIZE,
                                          outcome |-> outcome])
         /\ usrc_seq' = SeqAfterPass(usrc_seq, outcome)
    /\ usrc_pc' = "sleep"
    /\ UNCHANGED <<usrc_sock, usrc_hi>>

\* task.cancel(): CancelledError at sock_sendto or sleep; finally: sock.close().
\* A task cancelled before it first runs has created no socket.
udp_source_cancelled ==
    /\ UNCHANGED notUsrc
    /\ usrc_pc \in {"start", "send", "sleep"}
    /\ usrc_pc' = "cancelled"
    /\ usrc_sock' = IF usrc_sock = "open" THEN "closed" ELSE usrc_sock
    /\ UNCHANGED <<usrc_seq, usrc_hi, usrc_log>>

NextUdpSource ==
    \/ udp_source_tick
    \/ udp_source_sent
    \/ udp_source_cancelled

(***************************************************************************)
(* The codecs and the generator on their own                               *)
(***************************************************************************)
\* field values the codecs are run on: the ends of each wire range and values
\* whose bytes differ from one another
U8Samples == {0, 1, 255}
U16Samples == {0, 1, 1023, 65535}
I16Samples == {-32768, -1, 32767}
U32Samples == {0, 1, 65535, 65536, 2147483647}
U64Samples == {0, 5, 70000, 2147483647}
PayloadLens == {0, GS_SIZE, MAX_FRAME_LEN}

\* a behaviour runs one value through one codec
InitCodec == rt = [kind |-> "none"]

InitGen ==
    /\ gen_n = 0
    /\ gen_state = GeneratedState(0)

\* pack_envelope, then Envelope.from_bytes on its bytes
codec_envelope ==
    /\ UNCHANGED notCodec
    /\ rt.kind = "none"
    /\ \E m \in U8Samples, v \in U8Samples, n \in PayloadLens,
          q \in U32Samples, now \in U64Samples :
         LET e == pack_envelope(m, v, Zeros(n), q, now) IN
         rt' = [kind |-> "envelope",
                x |-> [msg_type |-> m, version |-> v, length |-> n,
                       seq |-> q, timestamp_us |-> now],
                ok |-> e.ok, bytes |-> e.bytes, y |-> Envelope_from_bytes(e.bytes)]

\* struct.pack of the GamepadState format, then GamepadState.from_bytes
codec_gamepad ==
    /\ UNCHANGED notCodec
    /\ rt.kind = "none"
    /\ \E id \in {0, 255}, fl \in {1, 255}, bt \in U16Samples,
          ax \in I16Samples, ay \in I16Samples, bx \in I16Samples, by \in {-1, 32767},
          tl \in {0, 1023}, tr \in {1, 65535}, dx \in {-1, 0, 1}, dy \in {0, -32768} :
         LET x == [device_id |-> id, flags |-> fl, buttons |-> bt,
                   lx |-> ax, ly |-> ay, rx |-> bx, ry |-> by,
                   l2 |-> tl, r2 |-> tr, dpad_x |-> dx, dpad_y |-> dy]
             g == PackGamepadFields(x)
         IN  rt' = [kind |-> "gamepad", x |-> x, ok |-> g.ok, bytes |-> g.bytes,
                    y |-> GamepadState_from_bytes(g.bytes)]

NextCodec ==
    \/ codec_envelope
    \/ codec_gamepad

\* pack_gamepad_state(seq) for the next seq of a source loop
generator_tick ==
    /\ UNCHANGED notGen
    /\ gen_n < MaxGenTick
    /\ gen_n' = gen_n + 1
    /\ gen_state' = GeneratedState(gen_n + 1)

NextGen ==
    \/ generator_tick

(***************************************************************************)
(* Orchestration                                                           *)
(***************************************************************************)
Engines == {"tcp", "udp"}
\* the connections the TCP sink may have while main_async runs
Handlers == {1, 2}

\* tasks.append(asyncio.create_task(...)) under "if args.mode in (..., 'both')"
Started(m, e) == m = "both" \/ m = e

InitOrch ==
    /\ mode \in {"tcp", "udp", "both"}
    /\ role \in {"sink", "source"}
    /\ wait_closed_waits \in BOOLEAN
    /\ orch_pc = "waiting"
    /\ stop = FALSE
    /\ task = [e \in Engines |-> IF Started(mode, e) THEN "starting" ELSE "absent"]
    /\ handler = [h \in Handlers |-> "none"]

\* the command line's defaults: --mode tcp --role sink
InitOrchDefault ==
    /\ InitOrch
    /\ mode = "tcp"
    /\ role = "sink"
    /\ ~wait_closed_waits

\* a task that has ended, one way or another
Done(st) == st \in {"failed", "cancelled"}

\* the exceptions that end an engine task: a sink fails to bind; udp_source
\* fails to bind or to pack a frame; tcp_source catches everything but its
\* cancellation
CanFail(e, r, st) ==
    \/ r = "sink" /\ st = "starting"
    \/ r = "source" /\ e = "udp" /\ st \in {"starting", "running"}

\* the tasks are created one by one and main_async awaits only the stop
\* event: the end of one task reaches no other task
\* t.cancel() on a task: a request the task meets at its await; a task that
\* is done takes none
Cancel(st) ==
    IF st = "starting" THEN "aborting" ELSE IF st = "running" THEN "cancelling" ELSE st

CancelOnSiblingFailure(st) == Cancel(st)
AfterSiblingFailure(st) == st

\* the engine reached its serving / sending loop
engine_started(e) ==
    /\ UNCHANGED notOrch
    /\ task[e] = "starting"
    /\ task' = [task EXCEPT ![e] = "running"]
    /\ UNCHANGED <<mode, role, wait_closed_waits, orch_pc, stop, handler>>

\* the engine's coroutine raised: its task ends holding the exception
engine_failed(e) ==
    /\ UNCHANGED notOrch
    /\ CanFail(e, role, task[e])
    /\ task' = [d \in Engines |-> IF d = e THEN "failed" ELSE AfterSiblingFailure(task[d])]
    /\ UNCHANGED <<mode, role, wait_closed_waits, orch_pc, stop, handler>>

\* SIGINT / SIGTERM: _signal sets the stop event
signal_received ==
    /\ UNCHANGED notOrch
    /\ ~stop
    /\ stop' = TRUE
    /\ UNCHANGED <<mode, role, wait_closed_waits, orch_pc, task, handler>>

\* stop.wait() returned: "for t in tasks: t.cancel()", then await gather
main_async_cancels ==
    /\ UNCHANGED notOrch
    /\ orch_pc = "waiting"
    /\ stop
    /\ task' = [e \in Engines |-> Cancel(task[e])]
    /\ orch_pc' = "gathering"
    /\ UNCHANGED <<mode, role, wait_closed_waits, stop, handler>>

\* the handlers of the TCP sink that are still running
OpenHandlers == {h \in Handlers : handler[h] # "none"}

\* CancelledError reaches the engine at its await. tcp_sink leaves
\* "async with server" through server.close() and "await server.wait_closed()",
\* which, where it waits for the open connections, keeps the task from ending
engine_cancelled(e) ==
    /\ UNCHANGED notOrch
    /\ task[e] \in {"aborting", "cancelling"}
    /\ task' = [task EXCEPT ![e] =
                  IF /\ e = "tcp" /\ role = "sink" /\ task[e] = "cancelling"
                     /\ wait_closed_waits /\ OpenHandlers # {}
                  THEN "closing" ELSE "cancelled"]
    /\ UNCHANGED <<mode, role, wait_closed_waits, orch_pc, stop, handler>>

\* the last connection of the closed server ended: wait_closed() returns
tcp_sink_wait_closed ==
    /\ UNCHANGED notOrch
    /\ task["tcp"] = "closing"
    /\ OpenHandlers = {}
    /\ task' = [task EXCEPT !["tcp"] = "cancelled"]
    /\ UNCHANGED <<mode, role, wait_closed_waits, orch_pc, stop, handler>>

\* gather(*tasks, return_exceptions=True) returned: every task is done
main_async_returns ==
    /\ UNCHANGED notOrch
    /\ orch_pc = "gathering"
    /\ \A e \in Engines : task[e] = "absent" \/ Done(task[e])
    /\ orch_pc' = "returned"
    /\ UNCHANGED <<mode, role, wait_closed_waits, stop, task, handler>>

\* the listening TCP sink accepts a connection: a tcp_sink_client task of its
\* own, which no engine task and no entry of "tasks" refers to
\* (the tasks still alive when main_async has returned are cancelled by
\* asyncio.run)
handler_accepted(h) ==
    /\ UNCHANGED notOrch
    /\ role = "sink"
    /\ mode \in {"tcp", "both"}
    /\ task["tcp"] \in {"running", "cancelling"}
    /\ orch_pc # "returned"
    /\ handler[h] = "none"
    /\ handler' = [handler EXCEPT ![h] = "reading"]
    /\ UNCHANGED <<mode, role, wait_closed_waits, orch_pc, stop, task>>

\* the client sends a frame; the handler reads it and awaits the next
handler_client_sends(h) ==
    /\ UNCHANGED notOrch
    /\ orch_pc # "returned"
    /\ handler[h] = "reading"
    /\ handler' = [handler EXCEPT ![h] = "frame"]
    /\ UNCHANGED <<mode, role, wait_closed_waits, orch_pc, stop, task>>

handler_reads(h) ==
    /\ UNCHANGED notOrch
    /\ orch_pc # "returned"
    /\ handler[h] = "frame"
    /\ handler' = [handler EXCEPT ![h] = "reading"]
    /\ UNCHANGED <<mode, role, wait_closed_waits, orch_pc, stop, task>>

\* the read timed out on a silent client, or the client went away: the
\* handler closes its connection and ends
handler_ends(h) ==
    /\ UNCHANGED notOrch
    /\ orch_pc # "returned"
    /\ handler[h] = "reading"
    /\ handler' = [handler EXCEPT ![h] = "none"]
    /\ UNCHANGED <<mode, role, wait_closed_waits, orch_pc, stop, task>>

NextOrch ==
    \/ \E e \in Engines : engine_started(e)
    \/ \E e \in Engines : engine_failed(e)
    \/ signal_received
    \/ main_async_cancels
    \/ \E e \in Engines : engine_cancelled(e)
    \/ tcp_sink_wait_closed
    \/ main_async_returns
    \/ \E h \in Handlers : handler_accepted(h)
    \/ \E h \in Handlers : handler_client_sends(h)
    \/ \E h \in Handlers : handler_reads(h)
    \/ \E h \in Handlers : handler_ends(h)

TcpSourceTask ==
    \/ tcp_source_connected
    \/ tcp_source_connect_failed
    \/ tcp_source_drained
    \/ tcp_source_send_failed
    \/ tcp_source_paced
    \/ tcp_source_backoff_slept
    \/ tcp_source_error_slept

Init ==
    /\ msg_type \in MsgTypes
    /\ InitSrc
    /\ InitSink
    /\ InitUsink
    /\ InitUsrc
    /\ InitCodec
    /\ InitGen
    /\ InitOrchDefault

NextTcpSource ==
    \/ tcp_source_connected
    \/ tcp_source_connect_failed
    \/ tcp_source_drained
    \/ tcp_source_send_failed
    \/ tcp_source_paced
    \/ tcp_source_backoff_slept
    \/ tcp_source_error_slept
    \/ tcp_source_cancelled
    \/ transport_flush
    \/ peer_stalls
    \/ peer_resumes
    \/ connection_lost

SpecTcpSource == Init /\ [][NextTcpSource]_vars

InitSinks == Init /\ msg_type = 1

SpecTcpSink == InitSinks /\ [][NextTcpSink]_vars

SpecUdpSink == InitSinks /\ [][NextUdpSink]_vars

SpecUdpSource == Init /\ [][NextUdpSource]_vars

\* the UDP source, started where its counter nears 2^32
InitUdpWide ==
    /\ msg_type = 1
    /\ InitSrc
    /\ InitSink
    /\ InitUsink
    /\ InitUsrcWide
    /\ InitCodec
    /\ InitGen
    /\ InitOrchDefault

SpecUdpSourceWide == InitUdpWide /\ [][NextUdpSource]_vars

\* main_async under every mode and role
InitOrchestration ==
    /\ msg_type = 1
    /\ InitSrc
    /\ InitSink
    /\ InitUsink
    /\ InitUsrc
    /\ InitCodec
    /\ InitGen
    /\ InitOrch

SpecOrch == InitOrchestration /\ [][NextOrch]_vars

\* the event loop runs every task that is ready: main_async, the engine tasks
\* and the connection tasks take their steps, and the read timeout ends the
\* handler of a client that stays silent; signals, what clients send and the
\* exceptions that end a task are under no obligation
FairSpecOrch ==
    /\ SpecOrch
    /\ WF_vars(main_async_cancels)
    /\ WF_vars(main_async_returns)
    /\ WF_vars(tcp_sink_wait_closed)
    /\ \A e \in Engines : WF_vars(engine_started(e)) /\ WF_vars(engine_cancelled(e))
    /\ \A h \in Handlers : WF_vars(handler_reads(h)) /\ WF_vars(handler_ends(h))

SpecCodec == InitSinks /\ [][NextCodec]_vars

SpecGen == InitSinks /\ [][NextGen]_vars

\* the event loop runs every task that is ready and writes to a socket that
\* takes data; what peers and the network do is under no obligation
FairSpecTcpSource ==
    SpecTcpSource /\ WF_vars(TcpSourceTask) /\ WF_vars(transport_flush)

(***************************************************************************)
(* Properties                                                              *)
(***************************************************************************)
\* the seq field of the last packet the TCP source handed to its transport
LastSeq == Envelope_from_bytes(SubSeq(src_last, 1, ENV_SIZE)).seq

DelayAfterFailure(k) == Min(2 ^ (k - 1), BACKOFF_CAP)

\* C2: the delay slept after the k-th consecutive failure since the last
\* successful connect (or the start) is min(2^(k-1), 10); after a successful
\* connect the next delay is 1; the delay always lies in 1..10.
C2_BackoffSchedule ==
    /\ src_backoff >= BACKOFF_INITIAL
    /\ src_backoff <= BACKOFF_CAP
    /\ src_pc = "backoff"
          => src_fails >= 1 /\ src_sleep = DelayAfterFailure(src_fails)
                            /\ src_backoff = src_sleep
    /\ src_pc \in {"connect", "drain", "pace", "errsleep"}
          => src_backoff = DelayAfterFailure(src_fails + 1)
    /\ src_pc \in {"drain", "pace"} => src_backoff = BACKOFF_INITIAL /\ src_fails = 0

\* the source sleeps the capped delay after its sixth failure in a row
C2_Witness ==
    /\ src_pc = "backoff"
    /\ src_fails = 6
    /\ src_sleep = BACKOFF_CAP

\* the envelope a connection's handler is about to decode is there
HeaderReady(c) ==
    /\ conn[c].pc = "hdr"
    /\ conn[c].peer # "reset"
    /\ Len(conn[c].buf) >= ENV_SIZE

Others(c) == Conns \ {c}

\* C3: in the TCP sink an envelope with length 0 or length > 4096 closes that
\* connection with no payload byte read and no decode tried, and the listener
\* stays as it was, accepting.
C3_InvalidLengthClosesConnection ==
    [][\A c \in Conns :
         (/\ HeaderReady(c)
          /\ DeclaredLength(conn[c].buf) = 0 \/ DeclaredLength(conn[c].buf) > 4096
          /\ conn'[c].pc # conn[c].pc)
         => /\ conn'[c].pc = "closed"
            /\ conn'[c].consumed = conn[c].consumed + ENV_SIZE
            /\ conn'[c].attempts = conn[c].attempts
            /\ \A i \in 1..Len(conn'[c].log) : conn'[c].log[i].ev # "parse_error"
                                                \/ i <= Len(conn[c].log)
            /\ srv' = srv
            /\ \A d \in Others(c) : conn'[d] = conn[d]]_vars

\* a connection was closed for a zero length while the listener listens and
\* the sibling connection is served
C3_Witness ==
    /\ srv = "listening"
    /\ \E c \in Conns :
         /\ conn[c].pc = "closed"
         /\ \E i \in 1..Len(conn[c].log) :
              conn[c].log[i] = [ev |-> "invalid_length", length |-> 0]
         /\ \E d \in Others(c) : conn[d].pc = "hdr" /\ conn[d].attempts > 0

\* C4 as stated: the UDP sink discards a datagram whose envelope declares
\* length 0 or length > 4096 without trying to decode a payload and without
\* reporting a frame.
C4_UdpInvalidLengthDiscarded ==
    \A i \in 1..Len(usink_log) :
        (/\ usink_log[i].data_len >= ENV_SIZE
         /\ usink_log[i].declared = 0 \/ usink_log[i].declared > 4096)
        => /\ ~usink_log[i].decode_attempted
           /\ usink_log[i].outcome # "frame"

\* C5 as stated: a write of the TCP source that waits on a peer that has
\* stopped reading does not stay blocked: unless the peer reads again or the
\* connection breaks, the source leaves drain().
C5_StalledWriteFails ==
    (src_pc = "drain" /\ src_writer = "open" /\ ~peer_reading /\ src_txbuf > HighWater)
        ~> (src_pc # "drain" \/ peer_reading \/ src_writer # "open")

\* C6 as stated: a cancelled engine task has closed every socket it owns.
C6_CancelReleasesSockets ==
    /\ src_pc = "cancelled" => src_open = 0
    /\ usrc_pc = "cancelled" => usrc_sock # "open"

\* a read that is going to fail: the peer has reset, or the bytes are not there
ReadStuck(c) ==
    /\ conn[c].pc \in {"hdr", "payload"}
    /\ conn[c].peer = "reset" \/ Len(conn[c].buf) < Wanted(conn[c])

\* C7: when a read of a TCP sink connection times out, comes up short or hits
\* a reset, that connection is closed, every other connection is left exactly
\* as it was, and so is the listener.
C7_ReadFailureIsolated ==
    [][\A c \in Conns :
         (ReadStuck(c) /\ conn'[c].log # conn[c].log)
         => /\ conn'[c].pc = "closed"
            /\ \A d \in Others(c) : conn'[d] = conn[d]
            /\ srv' = srv]_vars

\* one connection was closed on a failed read; its sibling, with a frame
\* already received, is in its read loop, and the listener listens
C7_Witness ==
    /\ srv = "listening"
    /\ \E c \in Conns :
         /\ conn[c].pc = "closed"
         /\ \E i \in 1..Len(conn[c].log) : conn[c].log[i].ev = "read_failed"
         /\ \E d \in Others(c) :
              /\ conn[d].pc \in {"hdr", "payload"}
              /\ \E j \in 1..Len(conn[d].log) : conn[d].log[j].ev = "frame"

\* the payload a connection's handler is about to decode is there
PayloadReady(c) ==
    /\ conn[c].pc = "payload"
    /\ conn[c].peer # "reset"
    /\ Len(conn[c].buf) >= conn[c].env_length

\* C8: in the TCP sink a payload that fails to decode (declared length in
\* (0, 4096]) is logged for that frame, the connection stays open, and the
\* next envelope is read right after that frame's payload.
C8_DecodeFailureKeepsConnection ==
    [][\A c \in Conns :
         (/\ PayloadReady(c)
          /\ ~GamepadState_from_bytes(SubSeq(conn[c].buf, 1, conn[c].env_length)).ok
          /\ conn'[c].pc # conn[c].pc)
         => /\ conn'[c].pc = "hdr"
            /\ conn'[c].peer = conn[c].peer
            /\ conn'[c].buf = SubSeq(conn[c].buf, conn[c].env_length + 1, Len(conn[c].buf))
            /\ conn'[c].consumed = conn[c].consumed + conn[c].env_length
            /\ Len(conn'[c].log) > Len(conn[c].log)
            /\ conn'[c].log[Len(conn'[c].log)]
                 = [ev |-> "parse_error", length |-> conn[c].env_length]
            /\ Cardinality({i \in 1..Len(conn'[c].log) : conn'[c].log[i].ev = "parse_error"})
                 = 1 + Cardinality({i \in 1..Len(conn[c].log) : conn[c].log[i].ev = "parse_error"})]_vars

\* a connection logged a parse error and then received the next frame
C8_Witness ==
    \E c \in Conns : \E i, j \in 1..Len(conn[c].log) :
        /\ i < j
        /\ conn[c].log[i].ev = "parse_error"
        /\ conn[c].log[j].ev = "frame"
        /\ conn[c].pc = "hdr"

\* C9 as stated: a datagram of at least 14 bytes with fewer bytes after the
\* first 14 than the declared length is rejected as truncated, no decode tried.
C9_TruncatedFrom14 ==
    \A i \in 1..Len(usink_log) :
        (usink_log[i].data_len >= 14 /\ usink_log[i].data_len - 14 < usink_log[i].declared)
        => usink_log[i].outcome = "truncated" /\ ~usink_log[i].decode_attempted

\* C9 amended: a datagram of at least 16 bytes (the envelope size) with fewer
\* bytes after the first 16 than the declared length is rejected as truncated:
\* no decode is tried, no frame is reported, the transport and what was
\* logged before are as they were.
C9_TruncatedFrom16 ==
    [][usink_log' # usink_log =>
         LET e == usink_log'[Len(usink_log')] IN
         (e.data_len >= 16 /\ e.data_len - 16 < e.declared)
         => /\ e.outcome = "truncated"
            /\ ~e.decode_attempted
            /\ ~e.mismatch
            /\ usink_open' = usink_open
            /\ SubSeq(usink_log', 1, Len(usink_log')  - 1) = usink_log]_vars

\* a truncated datagram was rejected and the next one was received as a frame
C9_Witness ==
    /\ usink_open
    /\ \E i \in 1..Len(usink_log) :
         /\ i < Len(usink_log)
         /\ usink_log[i].outcome = "truncated"
         /\ usink_log[i].data_len >= 16
         /\ usink_log[i + 1].outcome = "frame"

\* packet sizes at the edge of the UDP source's size check
ProbeSizes == {UDP_SAFE_PAYLOAD, UDP_SAFE_PAYLOAD + 1}

\* C10: each pass of the UDP source's loop that sends, drops or fails to send
\* moves seq on by exactly 1 and goes on to the next pass; the passes carry
\* seq 0, 1, 2, ... (no retry); a packet over 1472 bytes is dropped and never
\* handed to the socket.
C10_UdpSeqAdvances ==
    [][/\ usrc_log' # usrc_log =>
            LET e == usrc_log'[Len(usrc_log')] IN
            /\ Len(usrc_log') = Len(usrc_log) + 1
            /\ e.seq = usrc_seq
            /\ e.seq = Len(usrc_log)
            /\ usrc_seq' = usrc_seq + 1
            /\ usrc_pc' = "sleep"
            /\ usrc_sock' = "open"
            /\ e.outcome \in {"sent", "error"} => e.len <= 1472
       /\ \A n \in ProbeSizes :
            LET p == PassStart(n, usrc_seq) IN
            IF n > 1472
            THEN /\ p.pc = "sleep"
                 /\ p.seq = usrc_seq + 1
                 /\ p.log = <<[seq |-> usrc_seq, len |-> n, outcome |-> "dropped"]>>
            ELSE p.pc = "send" /\ p.seq = usrc_seq /\ p.log = <<>>]_vars

\* a send error on seq 1 was followed by a send of seq 2
C10_Witness ==
    /\ Len(usrc_log) >= 3
    /\ usrc_log[2] = [seq |-> 1, len |-> 36, outcome |-> "error"]
    /\ usrc_log[3] = [seq |-> 2, len |-> 36, outcome |-> "sent"]
    /\ usrc_pc = "sleep"
    /\ usrc_seq = 3

\* the awaits of tcp_source, and the one way out of its "while True"
SrcAwaits == {"connect", "drain", "pace", "backoff", "errsleep"}

\* C11: every connect failure and every send failure of the TCP source is
\* followed by a backoff wait and then a new connect attempt; no failure of the
\* peer or the network ends the task, which stops only when it is cancelled.
C11_FailureThenReconnect ==
    /\ [](src_pc \in SrcAwaits \cup {"cancelled"})
    /\ [][/\ src_fails' > src_fails
               => /\ src_pc \in {"connect", "drain"}
                  /\ src_pc' = "backoff"
                  /\ src_sleep' = src_backoff
          /\ (src_pc = "backoff" /\ src_pc' # "backoff")
               => src_pc' \in {"connect", "cancelled"}
          /\ src_pc = "cancelled" => src_pc' = "cancelled"]_vars
    /\ (src_pc = "backoff") ~> (src_pc \in {"connect", "cancelled"})

\* after a send failure and then a connect failure the source connects again
C11_Witness ==
    /\ src_pc = "connect"
    /\ src_writer = "closed"
    /\ src_fails = 2
    /\ src_backoff = 4

\* C15: on the connection the TCP source opened first, while it stays up, the
\* frames carry seq 0, 1, 2, ... with no gap and no duplicate; every envelope
\* the source emits declares length 20, the number of payload bytes after it.
C15_FirstConnectionFrames ==
    /\ src_last # <<>> =>
          LET e == Envelope_from_bytes(SubSeq(src_last, 1, ENV_SIZE)) IN
          /\ e.ok
          /\ e.length = GS_SIZE
          /\ Len(src_last) - ENV_SIZE = e.length
    /\ (src_first /\ src_writer = "open" /\ src_conn_frames > 0) =>
          /\ LastSeq = WordsOf(src_conn_frames - 1, 4)
          /\ src_maxseq = src_conn_frames - 1
          /\ src_seq \in {src_conn_frames - 1, src_conn_frames}

\* the first connection has carried frames 0..3 and is still up
C15_Witness ==
    /\ src_first
    /\ src_writer = "open"
    /\ src_conn_frames = 4
    /\ LastSeq = WordsOf(3, 4)
    /\ Len(src_last) = ENV_SIZE + GS_SIZE

\* C20 as stated: the TCP source never has more than one outbound connection
\* open, over any number of failures and reconnects.
C20_AtMostOneConnection ==
    src_open <= 1

\* C13 as stated: every error outcome leaves a log record, a failure while
\* closing a sink connection among them: a TCP sink connection whose close
\* raised has a record of that failure in its log.
C13_CloseFailureLogged ==
    \A c \in Conns :
       conn[c].close_failed
          => \E i \in 1..Len(conn[c].log) : conn[c].log[i].ev = "close_failed"

\* the stream bytes of the frames a log accounts for, hdr bytes of envelope each
RECURSIVE FrameBytes(_, _)
FrameBytes(log, hdr) ==
    IF log = <<>> THEN 0
    ELSE LET e == log[1] IN
         (IF e.ev \in {"frame", "parse_error"} THEN hdr + e.length ELSE 0)
           + FrameBytes(Tail(log), hdr)

\* C18 as stated: between two frames of a stream of valid-length frames, the
\* TCP sink has consumed 14 + length bytes for each frame it handled.
C18_Consumes14PlusLength ==
    \A c \in Conns :
       conn[c].pc = "hdr" => conn[c].consumed = FrameBytes(conn[c].log, 14)

\* C18 amended: the TCP sink consumes 16 + length bytes per frame (a 16-byte
\* envelope, then length payload bytes), taking the frames from the front of
\* the stream in send order; a length other than 20 adds only a warning: the
\* decode is still tried, succeeds on the first 20 bytes when length > 20, and
\* the connection goes on to the next envelope.
C18_Consumes16PlusLength ==
    /\ [](\A c \in Conns :
            /\ conn[c].pc = "hdr" => conn[c].consumed = FrameBytes(conn[c].log, ENV_SIZE)
            /\ conn[c].pc = "payload"
                 => conn[c].consumed = FrameBytes(conn[c].log, ENV_SIZE) + ENV_SIZE)
    /\ [][\A c \in Conns :
            (PayloadReady(c) /\ conn'[c].pc # conn[c].pc)
            => LET n == conn[c].env_length
                   old == conn[c].log
                   new == conn'[c].log
               IN  /\ conn'[c].pc = "hdr"
                   /\ conn'[c].buf = SubSeq(conn[c].buf, n + 1, Len(conn[c].buf))
                   /\ conn'[c].consumed = conn[c].consumed + n
                   /\ conn'[c].attempts = conn[c].attempts + 1
                   /\ Len(new) = Len(old) + (IF n = GS_SIZE THEN 1 ELSE 2)
                   /\ SubSeq(new, 1, Len(old)) = old
                   /\ n # GS_SIZE => new[Len(old) + 1] = [ev |-> "length_mismatch", length |-> n]
                   /\ new[Len(new)].ev = (IF n >= GS_SIZE THEN "frame" ELSE "parse_error")
                   /\ new[Len(new)].length = n]_vars

\* a connection took a 21-byte payload with a warning, decoded it, and then
\* took the 20-byte frame sent after it
C18_Witness ==
    \E c \in Conns :
       /\ conn[c].pc = "hdr"
       /\ conn[c].consumed = (ENV_SIZE + 21) + (ENV_SIZE + 20)
       /\ conn[c].log = <<[ev |-> "connected", length |-> 0],
                          [ev |-> "length_mismatch", length |-> 21],
                          [ev |-> "frame", length |-> 21],
                          [ev |-> "frame", length |-> 20]>>

\* decode(encode(x)) = x for the value last run through a codec, whose
\* envelopes take envSize bytes and whose fields lie in little-endian order
RoundTrip(envSize) ==
    /\ rt.kind = "envelope" =>
          /\ rt.ok /\ rt.y.ok
          /\ Len(rt.bytes) = envSize
          /\ rt.y.msg_type = rt.x.msg_type
          /\ rt.y.version = rt.x.version
          /\ rt.y.length = rt.x.length
          /\ rt.y.seq = WordsOf(rt.x.seq, 4)
          /\ rt.y.timestamp_us = WordsOf(rt.x.timestamp_us, 8)
          /\ rt.bytes[1] = rt.x.msg_type /\ rt.bytes[2] = rt.x.version
          /\ rt.bytes[3] = rt.x.length % 256 /\ rt.bytes[4] = rt.x.length \div 256
          /\ rt.bytes[5] = rt.x.seq % 256
          /\ rt.bytes[9] = rt.x.timestamp_us % 256
    /\ rt.kind = "gamepad" =>
          /\ rt.ok /\ rt.y.ok
          /\ Len(rt.bytes) = GS_SIZE
          /\ rt.y.state = rt.x
          /\ rt.bytes[1] = rt.x.device_id /\ rt.bytes[2] = rt.x.flags
          /\ rt.bytes[3] = rt.x.buttons % 256 /\ rt.bytes[4] = rt.x.buttons \div 256
          /\ rt.bytes[5] = rt.x.lx % 256
          /\ rt.bytes[15] = rt.x.r2 % 256
          /\ rt.bytes[19] = rt.x.dpad_y % 256

\* C16 as stated: every Envelope and every GamepadState with in-range fields
\* decodes from its encoding to the same field values, the encodings being 14
\* and 20 bytes, little-endian, in field order.
C16_RoundTrip14 ==
    RoundTrip(14)

\* C16 amended: the same round trip, the encodings being 16 and 20 bytes.
C16_RoundTrip16 ==
    RoundTrip(ENV_SIZE)

\* an envelope of the largest sampled msg_type, version, length and seq was
\* packed into its 16 bytes and decoded
C16_Witness ==
    /\ rt.kind = "envelope"
    /\ rt.x = [msg_type |-> 255, version |-> 255, length |-> 4096,
               seq |-> 2147483647, timestamp_us |-> 70000]
    /\ rt.bytes = <<255, 255, 0, 16, 255, 255, 255, 127, 112, 17, 1, 0, 0, 0, 0, 0>>
    /\ rt.y.ok

\* C17 as stated: with P = 200 and A = 12000, tri(0) = 0, the wave is
\* symmetric around P/2 (tri(P/2 - k) = tri(P/2 + k) for 0 <= k <= P/2), and
\* every value lies in [-A, A].
C17_TriSymmetric ==
    /\ gen_n = 0 => gen_state.lx = 0
    /\ gen_n <= TRI_PERIOD => gen_state.lx = tri(TRI_PERIOD - gen_n, TRI_PERIOD, TRI_AMP)
    /\ gen_state.lx >= 0 - TRI_AMP /\ gen_state.lx <= TRI_AMP

\* C17 amended: tri(0) = 0, the wave is antisymmetric around P/2
\* (tri(P/2 - k) = -tri(P/2 + k) for 1 <= k <= P/2, and tri(P/2) = -A), and
\* every value lies in [-A, A].
C17_TriAntisymmetric ==
    /\ gen_n = 0 => gen_state.lx = 0
    /\ (gen_n <= TRI_PERIOD /\ gen_n # TRI_PERIOD \div 2)
          => gen_state.lx = 0 - tri(TRI_PERIOD - gen_n, TRI_PERIOD, TRI_AMP)
    /\ gen_n % TRI_PERIOD = TRI_PERIOD \div 2 => gen_state.lx = 0 - TRI_AMP
    /\ gen_n % TRI_PERIOD = 50 => gen_state.lx = 6000
    /\ gen_n % TRI_PERIOD = 150 => gen_state.lx = -6000
    /\ gen_state.lx >= 0 - TRI_AMP /\ gen_state.lx <= TRI_AMP

\* one tick past the half period the wave is the negative of one tick before it
C17_Witness ==
    /\ gen_n = 101
    /\ gen_state.lx = -11880
    /\ tri(99, TRI_PERIOD, TRI_AMP) = 11880

\* C19 as stated: the UDP source's loop ends only when it is cancelled: for
\* every seq the counter reaches, those past 2^32 - 1 too, the frame is built
\* and the loop goes on; the task never ends with an exception.
C19_UdpLoopEndsOnlyByCancel ==
    usrc_pc \in {"start", "send", "sleep", "cancelled"}

\* C12 as stated: after the shutdown signal main_async cancels every engine
\* task it started and returns only once all of them have ended, and it does
\* return in the end, whatever the engines were doing (a TCP sink with
\* connected clients too).
C12_ShutdownReturns ==
    /\ [](orch_pc = "returned" => \A e \in Engines : task[e] = "absent" \/ Done(task[e]))
    /\ [](orch_pc = "gathering" => \A e \in Engines : task[e] \notin {"starting", "running"})
    /\ stop ~> (orch_pc = "returned")

\* C14: with two engines running, when one engine's task ends with an
\* exception the other engine's task is left as it is, neither cancelled nor
\* ended, and main_async stays where it was: until the signal nothing cancels
\* a task and main_async waits.
C14_FailureDoesNotPropagate ==
    /\ [](~stop => /\ orch_pc = "waiting"
                   /\ \A e \in Engines : task[e] \in {"absent", "starting", "running", "failed"})
    /\ [][\A e \in Engines :
            (task'[e] = "failed" /\ task[e] # "failed")
            => /\ \A d \in Engines \ {e} : task'[d] = task[d]
               /\ orch_pc' = orch_pc
               /\ stop' = stop
               /\ handler' = handler]_vars

\* in mode both the TCP sink failed to bind while the UDP sink serves and
\* main_async waits for the signal
C14_Witness ==
    /\ mode = "both"
    /\ role = "sink"
    /\ task = [e \in Engines |-> IF e = "tcp" THEN "failed" ELSE "running"]
    /\ orch_pc = "waiting"
    /\ ~stop

====
